---- MODULE Spec2Model ----
(***************************************************************************)
(* Model of the DynamoDB data commander: import_data.py (JSON importer)    *)
(* and copy_table.py (table copier).                                       *)
(*                                                                         *)
(* Three specifications share the variables:                               *)
(*   SpecEncode  applies convert_value to bounded JSON values;             *)
(*   SpecImport  runs import_data.main / process_file / write_batch;       *)
(*   SpecCopy    runs copy_table.main and the functions it calls.          *)
(***************************************************************************)
EXTENDS Integers, Sequences, FiniteSets, TLC

VARIABLES enc, imp, cpy

vars == <<enc, imp, cpy>>

(***************************************************************************)
(* Python values.  Every value is a record [t, v]: t is the runtime type   *)
(* that isinstance() inspects, v the payload.  A dict is a function from   *)
(* its keys to values, a list a sequence of values.                        *)
(***************************************************************************)
Str(s) == [t |-> "str", v |-> s]
Bool(b) == [t |-> "bool", v |-> b]
Num(n) == [t |-> "num", v |-> n]
None == [t |-> "null", v |-> "None"]
List(s) == [t |-> "list", v |-> s]
Dict(f) == [t |-> "dict", v |-> f]

\* A variable that holds no value yet.
Unset == [t |-> "unset", v |-> ""]

\* The dict literal {key: value}.
Dict1(key, value) == Dict(key :> value)

\* The keys of a dict.
Keys(d) == DOMAIN d.v

(***************************************************************************)
(* str() of an integer: the decimal rendering.                             *)
(***************************************************************************)
Digit(d) ==
    CASE d = 0 -> "0" [] d = 1 -> "1" [] d = 2 -> "2" [] d = 3 -> "3"
      [] d = 4 -> "4" [] d = 5 -> "5" [] d = 6 -> "6" [] d = 7 -> "7"
      [] d = 8 -> "8" [] d = 9 -> "9"

RECURSIVE NatStr(_)
NatStr(n) == IF n < 10 THEN Digit(n) ELSE NatStr(n \div 10) \o Digit(n % 10)

IntStr(n) == IF n < 0 THEN "-" \o NatStr(0 - n) ELSE NatStr(n)

(***************************************************************************)
(* convert_value                                                           *)
(***************************************************************************)
\* The tag vocabulary tested by the pass-through check.
Tags == {"S", "N", "B", "BOOL", "NULL", "M", "L"}

\* any(key in value for key in (...tags...))
AlreadyDynamoFormat(value) == \E key \in Tags : key \in Keys(value)

\* convert_value with the pass-through check dropped: every dict is Map-encoded.
RECURSIVE convert_value_no_passthrough(_)
convert_value_no_passthrough(value) ==
    CASE value.t = "str" -> Dict1("S", value)
      [] value.t = "bool" -> Dict1("BOOL", value)
      [] value.t = "num" -> Dict1("N", Str(IntStr(value.v)))
      [] value.t = "null" -> Dict1("NULL", Bool(TRUE))
      [] value.t = "list" ->
            Dict1("L", List([i \in DOMAIN value.v |->
                                convert_value_no_passthrough(value.v[i])]))
      [] value.t = "dict" ->
            Dict1("M", Dict([k \in Keys(value) |->
                                convert_value_no_passthrough(value.v[k])]))

\* convert_value with the number test ahead of the bool test: a bool is an int
\* and is rendered by str().
RECURSIVE convert_value_bool_as_number(_)
convert_value_bool_as_number(value) ==
    CASE value.t = "str" -> Dict1("S", value)
      [] value.t = "bool" -> Dict1("N", Str(IF value.v THEN "True" ELSE "False"))
      [] value.t = "num" -> Dict1("N", Str(IntStr(value.v)))
      [] value.t = "null" -> Dict1("NULL", Bool(TRUE))
      [] value.t = "list" ->
            Dict1("L", List([i \in DOMAIN value.v |->
                                convert_value_bool_as_number(value.v[i])]))
      [] value.t = "dict" ->
            IF AlreadyDynamoFormat(value)
            THEN value
            ELSE Dict1("M", Dict([k \in Keys(value) |->
                                convert_value_bool_as_number(value.v[k])]))

RECURSIVE convert_value(_)
convert_value(value) ==
    CASE value.t = "str" -> Dict1("S", value)
      [] value.t = "bool" -> Dict1("BOOL", value)
      [] value.t = "num" -> Dict1("N", Str(IntStr(value.v)))
      [] value.t = "null" -> Dict1("NULL", Bool(TRUE))
      [] value.t = "list" ->
            Dict1("L", List([i \in DOMAIN value.v |-> convert_value(value.v[i])]))
      [] value.t = "dict" ->
            IF AlreadyDynamoFormat(value)
            THEN value
            ELSE Dict1("M", Dict([k \in Keys(value) |-> convert_value(value.v[k])]))

(***************************************************************************)
(* Bounded JSON values for the encoder specification.                      *)
(***************************************************************************)
MaxLen == 2
MaxDepth == 2

Atoms == {Str(""), Str("a"), Bool(TRUE), Num(0), Num(-12), None}

DictKeys == {"S", "M", "name"}

SeqsUpTo(S, n) == UNION {[1..k -> S] : k \in 0..n}

DictsOver(S) == UNION {[ks -> S] : ks \in SUBSET DictKeys}

RECURSIVE JSONValues(_)
JSONValues(d) ==
    IF d = 0 THEN Atoms
    ELSE IF d = 1
    THEN Atoms \cup {List(s) : s \in SeqsUpTo(Atoms, MaxLen)}
               \cup {Dict(f) : f \in DictsOver(Atoms)}
    ELSE LET below == JSONValues(d - 1)
         IN  below \cup {List(<<x>>) : x \in below}
                   \cup {Dict1(k, x) : k \in DictKeys, x \in below}

(***************************************************************************)
(* Python truthiness, as tested by "not x".                                *)
(***************************************************************************)
Truthy(x) ==
    CASE x.t = "str" -> x.v # ""
      [] x.t = "bool" -> x.v
      [] x.t = "num" -> x.v # 0
      [] x.t = "null" -> FALSE
      [] x.t = "list" -> Len(x.v) # 0
      [] x.t = "dict" -> Keys(x) # {}

(***************************************************************************)
(* import_data.py: input files.                                            *)
(*                                                                         *)
(* A line is blank, malformed (json.loads raises JSONDecodeError) or holds *)
(* the value json.loads returns for it.                                    *)
(***************************************************************************)
Blank == [text |-> "blank", value |-> Unset]
Malformed == [text |-> "malformed", value |-> Unset]
Json(x) == [text |-> "json", value |-> x]

\* The store's hard ceiling on the size of one batch.
MaxBatch == 25

MaxLines == 3
PairLines == 1
MaxFaults == 1

LineKinds ==
    { Blank, Malformed, Json(Num(7)),
      Json(Dict1("name", Str("a"))),
      Json(Dict1("id", Str(""))),
      Json(Dict1("id", Str("k"))) }

\* n records with distinct non-empty ids.
RecordsFile(n) == [i \in 1..n |-> Json(Dict1("id", Str("k" \o IntStr(i))))]

\* Ten lines of which lines 3 and 7 are malformed.
TenLinesFile ==
    [i \in 1..10 |-> IF i \in {3, 7} THEN Malformed
                     ELSE Json(Dict1("id", Str("k" \o IntStr(i))))]

LongFiles == {TenLinesFile, RecordsFile(MaxBatch), RecordsFile(MaxBatch + 1)}

\* The contents of the data directory: what glob returns, file by file.
FileLists ==
    {<<>>}
        \cup {<<f>> : f \in SeqsUpTo(LineKinds, MaxLines) \cup LongFiles}
        \cup {<<f, g>> : f, g \in SeqsUpTo(LineKinds, PairLines)}

\* Values of --batch-size.
BatchSizes == {0, 1, 2, MaxBatch, MaxBatch + 1}

(***************************************************************************)
(* The store's answer to one batch_write_item call: it returns, leaving a  *)
(* suffix of the batch unprocessed, or the call raises.  Answers other     *)
(* than plain acceptance are limited to MaxFaults per run.                 *)
(***************************************************************************)
Suffix(s, k) == SubSeq(s, Len(s) - k + 1, Len(s))

StoreAnswers(batch, faults) ==
    {[kind |-> "ok", unprocessed |-> <<>>]}
        \cup IF faults < MaxFaults
             THEN {[kind |-> "ok", unprocessed |-> Suffix(batch, k)] : k \in 1..Len(batch)}
                    \cup {[kind |-> "ClientError", unprocessed |-> <<>>],
                          [kind |-> "Exception", unprocessed |-> <<>>]}
             ELSE {}

IsFault(answer) == answer.kind # "ok" \/ answer.unprocessed # <<>>

(***************************************************************************)
(* import_data.py: write_batch and the steps of process_file.              *)
(* A state st is the record held by the variable imp.                      *)
(***************************************************************************)
\* write_batch that reports no error when the store call raises.
write_batch_exception_uncounted(batch, answer) ==
    IF answer.kind = "ok"
    THEN <<1, Len(answer.unprocessed)>>
    ELSE <<0, 0>>

\* write_batch: (batches processed, errors) for one store call.
write_batch(batch, answer) ==
    IF answer.kind = "ok"
    THEN <<1, Len(answer.unprocessed)>>
    ELSE <<0, Len(batch)>>

\* processed, errors = write_batch(...); batch_count += processed;
\* error_count += errors.  The call is recorded in st.calls.
SubmitBatch(st, batch, answer) ==
    LET result == write_batch(batch, answer)
    IN  [st EXCEPT !.batch_count = @ + result[1],
                   !.error_count = @ + result[2],
                   !.calls = Append(@, [items |-> batch, answer |-> answer]),
                   !.faults = IF IsFault(answer) THEN @ + 1 ELSE @]

\* The string str(uuid4()) returns on its n-th call.
Uuid(n) == "uuid-" \o IntStr(n)

\* 'id' not in converted_item or not converted_item.get('id')
NeedsId(converted_item) ==
    "id" \notin DOMAIN converted_item \/ ~Truthy(converted_item["id"])

\* converted_item after the "Ensure ID exists" step; uuid is the fresh string.
EnsureId(converted_item, uuid) ==
    IF NeedsId(converted_item)
    THEN [k \in DOMAIN converted_item \cup {"id"} |->
            IF k = "id" THEN Dict1("S", Str(uuid)) ELSE converted_item[k]]
    ELSE converted_item

\* for key, value in item.items(): converted_item[key] = convert_value(value)
ConvertItem(item) == [key \in Keys(item) |-> convert_value(item.v[key])]

\* len(batch) >= batch_size
BatchFull(batch, batch_size) == Len(batch) >= batch_size

\* A malformed line that is skipped without being counted.
OnJSONDecodeErrorUncounted(st) == st

\* except json.JSONDecodeError: error_count += 1
OnJSONDecodeError(st) == [st EXCEPT !.error_count = @ + 1]

\* A line that is no JSON object, counted as an item but not as an error.
OnUnexpectedErrorUncounted(st) == [st EXCEPT !.item_count = @ + 1]

\* A line that parsed to something other than a dict: item_count was
\* incremented, item.items() raises AttributeError, except Exception counts it.
OnUnexpectedError(st) == [st EXCEPT !.item_count = @ + 1, !.error_count = @ + 1]

\* The request appended for a parsed record; src is the file and line it
\* came from.
PutRequest(st, n, item) ==
    [Item |-> EnsureId(ConvertItem(item), Uuid(st.uuids + 1)), src |-> <<st.file, n>>]

\* The state after a record was appended to the batch and before the
\* "batch full" test.
AppendRecord(st, n, item) ==
    [st EXCEPT !.item_count = @ + 1,
               !.uuids = IF NeedsId(ConvertItem(item)) THEN @ + 1 ELSE @,
               !.batch = Append(@, PutRequest(st, n, item))]

\* The final batch is never written.
FinalBatchDropped(batch) == FALSE

\* if batch: (the final batch is written when it is not empty)
FinalBatchPending(batch) == Len(batch) > 0

\* The check without its lower bound.
ValidBatchSizeNoLowerBound(n) == n <= MaxBatch

\* not 1 <= args.batch_size <= 25 is rejected
ValidBatchSize(n) == 1 <= n /\ n <= MaxBatch

CurrentFile(st) == st.files[st.file]

(***************************************************************************)
(* copy_table.py.  A state st is the record held by the variable cpy.      *)
(*                                                                         *)
(* Environment of a run:                                                   *)
(*   os_bound     whether the global name os resolves when main evaluates  *)
(*                os.getenv: copy_table.py does not import os, so it does  *)
(*                only when the embedding program has bound the name;      *)
(*   resource_ok  whether boto3.resource accepts the keyword client=; the  *)
(*                released boto3 raises TypeError for it;                  *)
(*   the answers of the store to each request.                             *)
(***************************************************************************)
\* PaginationConfig PageSize of the scan.
PageSize == 1000

\* flush_amount of dest.batch_writer(): it is called without arguments, so the
\* batch writer sends its buffer 25 requests at a time.
FlushAmount == 25

MaxItems == 3
MaxCopyFaults == 2

\* A source table of n items in the wire format scan returns.
SourceItems(n) == [i \in 1..n |-> ("id" :> Dict1("S", Str("k" \o IntStr(i))))]

\* Values of --batch-size.
CopyBatchSizes == {0, 2, MaxBatch, MaxBatch + 1}

\* The resource layer serialises every attribute of an item handed to
\* put_item by its Python type before the request is sent.
RECURSIVE TypeSerialize(_)
TypeSerialize(value) ==
    CASE value.t = "str" -> Dict1("S", value)
      [] value.t = "bool" -> Dict1("BOOL", value)
      [] value.t = "num" -> Dict1("N", Str(IntStr(value.v)))
      [] value.t = "null" -> Dict1("NULL", Bool(TRUE))
      [] value.t = "list" ->
            Dict1("L", List([i \in DOMAIN value.v |-> TypeSerialize(value.v[i])]))
      [] value.t = "dict" ->
            Dict1("M", Dict([k \in Keys(value) |-> TypeSerialize(value.v[k])]))

SerializeItem(item) == [k \in DOMAIN item |-> TypeSerialize(item[k])]

\* The run ends: sys.exit(1), or an exception nothing catches.
CopyExit(st, error) == [st EXCEPT !.pc = "exit", !.exit_code = 1, !.error = error]

CopyFault(st) == [st EXCEPT !.faults = @ + 1]

\* The run ends at the failure of the step named stage.
Fatal(st, stage, error) == CopyExit([st EXCEPT !.failed = stage], error)

\* The answers the store may give; all but "ok" count against MaxCopyFaults.
CopyAnswers(st, kinds) ==
    {"ok"} \cup IF st.faults < MaxCopyFaults THEN kinds ELSE {}

\* main, lines 161-183: the sessions and clients.
configure_clients(st) ==
    IF st.os_bound
    THEN [st EXCEPT !.pc = "check_dest"]
    ELSE Fatal(st, "configure", "NameError")

\* main, lines 185-198: check destination table existence.
check_destination(st, answer) ==
    IF answer = "ClientError"
    THEN Fatal(CopyFault(st), "check_dest", "ClientError")
    ELSE IF st.dest_exists /\ st.overwrite_dest
    THEN IF answer = "WaiterError"
         THEN Fatal([CopyFault(st) EXCEPT !.delete_requested = TRUE],
                    "delete_wait", "SystemExit")
         ELSE [st EXCEPT !.pc = "create_check", !.dest_checked = TRUE,
                         !.delete_requested = TRUE, !.dest_exists = FALSE,
                         !.dest = {}]
    ELSE [st EXCEPT !.pc = "create_check", !.dest_checked = TRUE]

\* The second check dropped: the table is created whether or not it exists.
create_check_always(st, answer) ==
    IF answer = "ClientError"
    THEN Fatal(CopyFault(st), "create_check", "ClientError")
    ELSE [st EXCEPT !.pc = "get_schema", !.absent = TRUE]

\* main, line 201: list the tables again; create when the destination is absent.
create_check(st, answer) ==
    IF answer = "ClientError"
    THEN Fatal(CopyFault(st), "create_check", "ClientError")
    ELSE IF ~st.dest_exists
    THEN [st EXCEPT !.pc = "get_schema", !.absent = TRUE]
    ELSE [st EXCEPT !.pc = "copy"]

\* get_table_schema that logs the error and returns instead of exiting.
get_table_schema_no_exit(st, answer) ==
    IF answer = "ClientError"
    THEN [CopyFault(st) EXCEPT !.pc = "create_table", !.failed = "schema_fetch"]
    ELSE [st EXCEPT !.pc = "create_table", !.schema_fetched = TRUE]

\* get_table_schema: describe_table; ClientError -> sys.exit(1)
get_table_schema(st, answer) ==
    IF answer = "ClientError"
    THEN Fatal(CopyFault(st), "schema_fetch", "SystemExit")
    ELSE [st EXCEPT !.pc = "create_table", !.schema_fetched = TRUE]

\* create_destination_table that logs a timed-out wait and returns.
create_destination_table_ignoring_timeout(st, answer) ==
    IF answer = "ClientError"
    THEN Fatal(CopyFault(st), "create", "SystemExit")
    ELSE IF answer = "WaiterError"
    THEN [CopyFault(st) EXCEPT !.pc = "copy", !.dest_exists = TRUE, !.created = TRUE,
                               !.failed = "create_wait"]
    ELSE [st EXCEPT !.pc = "copy", !.dest_exists = TRUE, !.created = TRUE,
                    !.wait_ok = TRUE]

\* create_destination_table: create_table rejected -> sys.exit(1); the waiter's
\* WaiterError is not a ClientError and leaves the function uncaught.
create_destination_table(st, answer) ==
    IF answer = "ClientError"
    THEN Fatal(CopyFault(st), "create", "SystemExit")
    ELSE IF answer = "WaiterError"
    THEN Fatal([CopyFault(st) EXCEPT !.dest_exists = TRUE, !.created = TRUE],
               "create_wait", "WaiterError")
    ELSE [st EXCEPT !.pc = "copy", !.dest_exists = TRUE, !.created = TRUE,
                    !.wait_ok = TRUE]

\* copy_table_data, lines 80-102: the resources, the paginator, the item count
\* and the batch writer.  batch_size is not used.
copy_table_data_start(st, batch_size, answer) ==
    IF ~st.resource_ok
    THEN Fatal(st, "resource", "TypeError")
    ELSE IF answer = "ClientError"
    THEN [CopyFault(st) EXCEPT !.pc = "scan", !.total_items = 0]
    ELSE [st EXCEPT !.pc = "scan", !.total_items = Len(st.source)]

\* BatchWriter._flush: send the first FlushAmount requests of the buffer; what
\* the store leaves unprocessed goes back to the end of the buffer.
Min(a, b) == IF a < b THEN a ELSE b

FlushItems(buffer) == SubSeq(buffer, 1, Min(Len(buffer), FlushAmount))

FlushRest(buffer) == SubSeq(buffer, Min(Len(buffer), FlushAmount) + 1, Len(buffer))

flush(st, answer) ==
    LET sent == FlushItems(st.buffer)
        st1 == [st EXCEPT !.buffer = FlushRest(st.buffer),
                          !.calls = Append(@, [items |-> sent, answer |-> answer]),
                          !.faults = IF IsFault(answer) THEN @ + 1 ELSE @]
    IN  IF answer.kind = "ok"
        THEN [st1 EXCEPT !.buffer = @ \o answer.unprocessed,
                         !.dest = @ \cup {sent[i].Item :
                                            i \in 1..(Len(sent) - Len(answer.unprocessed))}]
        ELSE st1

\* The answers of batch_write_item to the next flush of the buffer.
FlushAnswers(st) ==
    {[kind |-> "ok", unprocessed |-> <<>>]}
        \cup IF st.faults < MaxCopyFaults
             THEN {[kind |-> "ok", unprocessed |-> Suffix(FlushItems(st.buffer), k)] :
                        k \in 1..Len(FlushItems(st.buffer))}
                    \cup {[kind |-> "ClientError", unprocessed |-> <<>>]}
             ELSE {}

\* BatchWriter.put_item: append the request, flush when the buffer holds
\* FlushAmount requests.
NeedsFlush(buffer) == Len(buffer) >= FlushAmount

\* copy_table_data, lines 104-114: the loop body for one item of the page.
put_item(st, answer) ==
    LET item == st.page[1]
        st1 == [st EXCEPT !.page = Tail(@),
                          !.buffer = Append(@, [Item |-> SerializeItem(item)])]
    IN  IF ~NeedsFlush(st1.buffer)
        THEN [st1 EXCEPT !.processed_items = @ + 1]
        ELSE IF answer.kind = "ok"
        THEN [flush(st1, answer) EXCEPT !.processed_items = @ + 1]
        ELSE [flush(st1, answer) EXCEPT !.item_errors = @ + 1]

\* The ItemCount describe_table reports for a table of n items: the count of
\* the store's last refresh, which may predate the writes.
ItemCounts(n) == {n, 0}

\* validate_copy, lines 118-133: compare the two reported counts; a ClientError
\* of describe_table is caught and gives False.
validate_copy(source_count, dest_count, answer) ==
    IF answer = "ClientError" THEN FALSE
    ELSE IF source_count # dest_count THEN FALSE
    ELSE TRUE

\* main that gives up when the validation finds issues.
after_validation_abort(st, result) ==
    IF result
    THEN [st EXCEPT !.pc = "delete_source", !.validated = "successful"]
    ELSE Fatal([st EXCEPT !.validated = "issues"], "validate", "SystemExit")

\* main, lines 219-222: the result of validate_copy is logged, as information
\* or as a warning, and the run goes on.
after_validation(st, result) ==
    [st EXCEPT !.pc = "delete_source",
               !.validated = IF result THEN "successful" ELSE "issues"]

\* str.lower() on the answers read at the prompt.
Lower(answer) == IF answer = "Y" THEN "y" ELSE IF answer = "YES" THEN "yes" ELSE answer

\* The answers typed at the prompt.
Confirmations == {"y", "Y", "n", "YES", ""}

\* A prompt whose every answer counts as a yes.
ConfirmedAlways(confirm) == TRUE

\* main, line 227: confirm == 'y'
Confirmed(confirm) == confirm = "y"

\* main that keeps the source when the validation found issues.
delete_source_unless_issues(st, typed, answer) ==
    LET confirm == Lower(typed)
        st1 == [st EXCEPT !.confirm = confirm]
    IN  IF ~Confirmed(confirm) \/ st.validated = "issues"
        THEN [st1 EXCEPT !.pc = "done"]
        ELSE IF answer = "ClientError"
        THEN Fatal(CopyFault(st1), "delete_source", "ClientError")
        ELSE [st1 EXCEPT !.pc = "done", !.source_exists = FALSE]

\* main, lines 225-231: the prompt, and delete_table when the lowered answer is
\* 'y'; a ClientError of delete_table is not caught.
delete_source(st, typed, answer) ==
    LET confirm == Lower(typed)
        st1 == [st EXCEPT !.confirm = confirm]
    IN  IF ~Confirmed(confirm)
        THEN [st1 EXCEPT !.pc = "done"]
        ELSE IF answer = "ClientError"
        THEN Fatal(CopyFault(st1), "delete_source", "ClientError")
        ELSE [st1 EXCEPT !.pc = "done", !.source_exists = FALSE]

(***************************************************************************)
(* Idle states of the three programs.                                      *)
(***************************************************************************)
EncIdle == [pc |-> "idle", value |-> Unset, once |-> Unset, twice |-> Unset]
ImpIdle ==
    [pc |-> "idle", batch_size |-> 0, files |-> <<>>, file |-> 0, line_number |-> 0,
     batch |-> <<>>, item_count |-> 0, batch_count |-> 0, error_count |-> 0,
     total_items |-> 0, total_errors |-> 0, exit_code |-> 0,
     calls |-> <<>>, faults |-> 0, uuids |-> 0, reports |-> <<>>]
CpyIdle ==
    [pc |-> "idle", os_bound |-> FALSE, resource_ok |-> FALSE,
     overwrite_dest |-> FALSE, validate |-> FALSE, delete_source |-> FALSE,
     batch_size |-> 0, source |-> <<>>, source_exists |-> TRUE,
     dest_exists |-> FALSE, dest |-> {},
     dest_checked |-> FALSE, delete_requested |-> FALSE, absent |-> FALSE,
     schema_fetched |-> FALSE, created |-> FALSE, wait_ok |-> FALSE,
     total_items |-> 0, processed_items |-> 0, item_errors |-> 0,
     scanned |-> 0, page |-> <<>>, buffer |-> <<>>, raised |-> "",
     calls |-> <<>>, faults |-> 0, validated |-> "", confirm |-> "",
     copied_count |-> -1, exit_code |-> 0, error |-> "", failed |-> "",
     dest_initial |-> FALSE, source_count |-> -1, dest_count |-> -1]

(***************************************************************************)
(* SpecEncode: encode a value, then encode the result again.               *)
(***************************************************************************)
EncInit ==
    /\ enc \in {[pc |-> "call", value |-> x, once |-> Unset, twice |-> Unset] :
                    x \in JSONValues(MaxDepth)}
    /\ imp = ImpIdle
    /\ cpy = CpyIdle

Encode ==
    /\ enc.pc = "call"
    /\ enc' = [enc EXCEPT !.pc = "encoded", !.once = convert_value(enc.value)]
    /\ UNCHANGED <<imp, cpy>>

Reencode ==
    /\ enc.pc = "encoded"
    /\ enc' = [enc EXCEPT !.pc = "reencoded", !.twice = convert_value(enc.once)]
    /\ UNCHANGED <<imp, cpy>>

EncNext == Encode \/ Reencode

SpecEncode == EncInit /\ [][EncNext]_vars

(***************************************************************************)
(* SpecImport: import_data.main over one data directory.                   *)
(*   pc: main -> glob -> (open -> lines -> returned)* -> done, or exit.    *)
(*   calls: the batch_write_item calls made so far, with the store's       *)
(*   answers; reports: the tuple process_file returned for each file.      *)
(***************************************************************************)
ImpInit ==
    /\ imp \in {[ImpIdle EXCEPT !.pc = "main", !.batch_size = b, !.files = fl] :
                    b \in BatchSizes, fl \in FileLists}
    /\ enc = EncIdle
    /\ cpy = CpyIdle

\* main: validate the batch size.
ImpValidate ==
    /\ imp.pc = "main"
    /\ imp' = IF ValidBatchSize(imp.batch_size)
              THEN [imp EXCEPT !.pc = "glob"]
              ELSE [imp EXCEPT !.pc = "exit", !.exit_code = 1]
    /\ UNCHANGED <<enc, cpy>>

\* main: find the JSON files; return when there are none.
ImpFindFiles ==
    /\ imp.pc = "glob"
    /\ imp' = IF Len(imp.files) = 0
              THEN [imp EXCEPT !.pc = "done"]
              ELSE [imp EXCEPT !.pc = "open", !.file = 1,
                               !.total_items = 0, !.total_errors = 0]
    /\ UNCHANGED <<enc, cpy>>

\* process_file: open the file and initialise the counters.
OpenFile ==
    /\ imp.pc = "open"
    /\ imp' = [imp EXCEPT !.pc = "lines", !.line_number = 0, !.batch = <<>>,
                          !.item_count = 0, !.batch_count = 0, !.error_count = 0]
    /\ UNCHANGED <<enc, cpy>>

\* process_file: one iteration of the loop over the lines.
ProcessLine ==
    /\ imp.pc = "lines"
    /\ imp.line_number < Len(CurrentFile(imp))
    /\ LET n == imp.line_number + 1
           line == CurrentFile(imp)[n]
           st == [imp EXCEPT !.line_number = n]
       IN  CASE line.text = "blank" -> imp' = st
             [] line.text = "malformed" -> imp' = OnJSONDecodeError(st)
             [] line.text = "json" /\ line.value.t # "dict" ->
                    imp' = OnUnexpectedError(st)
             [] line.text = "json" /\ line.value.t = "dict" ->
                    LET st1 == AppendRecord(st, n, line.value)
                    IN  IF BatchFull(st1.batch, st1.batch_size)
                        THEN \E answer \in StoreAnswers(st1.batch, st1.faults) :
                                imp' = [SubmitBatch(st1, st1.batch, answer)
                                            EXCEPT !.batch = <<>>]
                        ELSE imp' = st1
    /\ UNCHANGED <<enc, cpy>>

\* process_file: after the last line, write the final batch and return.
FinalBatch ==
    /\ imp.pc = "lines"
    /\ imp.line_number = Len(CurrentFile(imp))
    /\ \E answer \in StoreAnswers(imp.batch, imp.faults) :
          LET st == IF FinalBatchPending(imp.batch)
                    THEN SubmitBatch(imp, imp.batch, answer)
                    ELSE imp
          IN  /\ ~FinalBatchPending(imp.batch) => ~IsFault(answer)
              /\ imp' = [st EXCEPT !.pc = "returned",
                            !.reports = Append(@, <<st.item_count, st.batch_count,
                                                   st.error_count>>)]
    /\ UNCHANGED <<enc, cpy>>

\* main that gives up at the first file that reported errors.
AccumulateUntilErrors ==
    /\ imp.pc = "returned"
    /\ imp' = [imp EXCEPT !.total_items = @ + imp.item_count,
                          !.total_errors = @ + imp.error_count,
                          !.file = IF imp.file < Len(imp.files) /\ imp.error_count = 0
                                   THEN @ + 1 ELSE @,
                          !.pc = IF imp.file < Len(imp.files) /\ imp.error_count = 0
                                 THEN "open" ELSE "done"]
    /\ UNCHANGED <<enc, cpy>>

\* main: add the file's counts to the totals and go to the next file.
Accumulate ==
    /\ imp.pc = "returned"
    /\ imp' = [imp EXCEPT !.total_items = @ + imp.item_count,
                          !.total_errors = @ + imp.error_count,
                          !.file = IF imp.file < Len(imp.files) THEN @ + 1 ELSE @,
                          !.pc = IF imp.file < Len(imp.files) THEN "open" ELSE "done"]
    /\ UNCHANGED <<enc, cpy>>

ImpNext ==
    \/ ImpValidate
    \/ ImpFindFiles
    \/ OpenFile
    \/ ProcessLine
    \/ FinalBatch
    \/ Accumulate

SpecImport == ImpInit /\ [][ImpNext]_vars

(***************************************************************************)
(* SpecCopy: copy_table.main.                                              *)
(*   pc: main -> check_dest -> create_check -> [get_schema -> create_table]*)
(*       -> copy -> scan/put loop -> exit_writer -> copied                 *)
(*       -> delete_source -> done, or exit at a fatal error.               *)
(*   calls: the batch_write_item calls against the destination.            *)
(***************************************************************************)
CopyRun(env, flags, b, d, n) ==
    [CpyIdle EXCEPT !.pc = "main",
                    !.os_bound = env[1], !.resource_ok = env[2],
                    !.overwrite_dest = flags[1], !.validate = flags[2],
                    !.delete_source = flags[3],
                    !.batch_size = b, !.dest_exists = d, !.dest_initial = d,
                    !.source = SourceItems(n)]

CopyInit ==
    /\ cpy \in {CopyRun(env, flags, b, d, n) :
                    env \in BOOLEAN \X BOOLEAN,
                    flags \in BOOLEAN \X BOOLEAN \X BOOLEAN,
                    b \in CopyBatchSizes, d \in BOOLEAN, n \in 0..MaxItems}
          \cup {CopyRun(<<TRUE, TRUE>>, flags, b, d, n) :
                    flags \in {<<FALSE, FALSE, FALSE>>, <<FALSE, TRUE, TRUE>>},
                    b \in {2, MaxBatch}, d \in BOOLEAN,
                    n \in {FlushAmount, FlushAmount + 1}}
    /\ enc = EncIdle
    /\ imp = ImpIdle

CopyConfigure ==
    /\ cpy.pc = "main"
    /\ cpy' = configure_clients(cpy)
    /\ UNCHANGED <<enc, imp>>

CheckDestination ==
    /\ cpy.pc = "check_dest"
    /\ \E answer \in CopyAnswers(cpy, {"ClientError"} \cup
                        IF cpy.dest_exists /\ cpy.overwrite_dest
                        THEN {"WaiterError"} ELSE {}) :
            cpy' = check_destination(cpy, answer)
    /\ UNCHANGED <<enc, imp>>

CreateCheck ==
    /\ cpy.pc = "create_check"
    /\ \E answer \in CopyAnswers(cpy, {"ClientError"}) :
            cpy' = create_check(cpy, answer)
    /\ UNCHANGED <<enc, imp>>

GetTableSchema ==
    /\ cpy.pc = "get_schema"
    /\ \E answer \in CopyAnswers(cpy, {"ClientError"}) :
            cpy' = get_table_schema(cpy, answer)
    /\ UNCHANGED <<enc, imp>>

CreateDestinationTable ==
    /\ cpy.pc = "create_table"
    /\ \E answer \in CopyAnswers(cpy, {"ClientError", "WaiterError"}) :
            cpy' = create_destination_table(cpy, answer)
    /\ UNCHANGED <<enc, imp>>

CopyStart ==
    /\ cpy.pc = "copy"
    /\ \E answer \in CopyAnswers(cpy, {"ClientError"}) :
            /\ ~cpy.resource_ok => answer = "ok"
            /\ cpy' = copy_table_data_start(cpy, cpy.batch_size, answer)
    /\ UNCHANGED <<enc, imp>>

\* Lengths of the next page: the store returns at most PageSize items and may
\* return fewer.
PageLengths(remaining) == {1, Min(remaining, PageSize)}

\* for page in page_iterator: the next page, the end of the scan, or an error
\* of the scan, which leaves the with block.
FetchPage ==
    /\ cpy.pc = "scan"
    /\ IF cpy.scanned = Len(cpy.source)
       THEN cpy' = [cpy EXCEPT !.pc = "exit_writer"]
       ELSE \/ \E len \in PageLengths(Len(cpy.source) - cpy.scanned) :
                    cpy' = [cpy EXCEPT !.pc = "put",
                                !.page = SubSeq(cpy.source, cpy.scanned + 1,
                                                cpy.scanned + len),
                                !.scanned = @ + len]
            \/ /\ cpy.faults < MaxCopyFaults
               /\ cpy' = [CopyFault(cpy) EXCEPT !.pc = "exit_writer",
                                                !.raised = "ClientError",
                                                !.failed = "scan"]
    /\ UNCHANGED <<enc, imp>>

PutItem ==
    /\ cpy.pc = "put"
    /\ LET appended == [cpy EXCEPT !.buffer = Append(@, [Item |-> SerializeItem(cpy.page[1])])]
       IN  \E answer \in FlushAnswers(appended) :
                /\ ~NeedsFlush(appended.buffer) => ~IsFault(answer)
                /\ LET st == put_item(cpy, answer)
                   IN  cpy' = IF Len(st.page) = 0 THEN [st EXCEPT !.pc = "scan"] ELSE st
    /\ UNCHANGED <<enc, imp>>

\* BatchWriter.__exit__: flush until the buffer is empty; then the with block
\* is left, by the pending exception if there is one.
ExitWriter ==
    /\ cpy.pc = "exit_writer"
    /\ IF Len(cpy.buffer) = 0
       THEN cpy' = IF cpy.raised # ""
                   THEN CopyExit(cpy, cpy.raised)
                   ELSE [cpy EXCEPT !.pc = "copied", !.copied_count = cpy.processed_items]
       ELSE \E answer \in FlushAnswers(cpy) :
                cpy' = IF answer.kind = "ok"
                       THEN flush(cpy, answer)
                       ELSE Fatal(flush(cpy, answer), "write", "ClientError")
    /\ UNCHANGED <<enc, imp>>

\* main, lines 216-222: validation, when asked for.
Validate ==
    /\ cpy.pc = "copied"
    /\ IF cpy.validate
       THEN \E answer \in CopyAnswers(cpy, {"ClientError"}),
               source_count \in ItemCounts(Len(cpy.source)),
               dest_count \in ItemCounts(Cardinality(cpy.dest)) :
                LET read == answer = "ok"
                    st == [cpy EXCEPT !.faults = IF read THEN @ ELSE @ + 1,
                                      !.source_count = IF read THEN source_count ELSE @,
                                      !.dest_count = IF read THEN dest_count ELSE @]
                IN  cpy' = after_validation(st,
                                validate_copy(source_count, dest_count, answer))
       ELSE cpy' = [cpy EXCEPT !.pc = "delete_source"]
    /\ UNCHANGED <<enc, imp>>

\* main, lines 224-231: source table deletion, after confirmation.
DeleteSource ==
    /\ cpy.pc = "delete_source"
    /\ IF cpy.delete_source
       THEN \E typed \in Confirmations :
                \E answer \in CopyAnswers(cpy, IF Confirmed(Lower(typed))
                                               THEN {"ClientError"} ELSE {}) :
                    cpy' = delete_source(cpy, typed, answer)
       ELSE cpy' = [cpy EXCEPT !.pc = "done"]
    /\ UNCHANGED <<enc, imp>>

CopyNext ==
    \/ CopyConfigure
    \/ CheckDestination
    \/ CreateCheck
    \/ GetTableSchema
    \/ CreateDestinationTable
    \/ CopyStart
    \/ FetchPage
    \/ PutItem
    \/ ExitWriter
    \/ Validate
    \/ DeleteSource

SpecCopy == CopyInit /\ [][CopyNext]_vars

(***************************************************************************)
(* Properties of the importer.                                             *)
(***************************************************************************)
IsRecordLine(line) == line.text = "json" /\ line.value.t = "dict"

\* The <<file, line>> of every line of file f that holds a JSON object, in order.
ObjectLines(files, f) ==
    SelectSeq([i \in 1..Len(files[f]) |-> <<f, i>>],
              LAMBDA p : IsRecordLine(files[f][p[2]]))

RECURSIVE ObjectLinesUpTo(_, _)
ObjectLinesUpTo(files, f) ==
    IF f = 0 THEN <<>> ELSE ObjectLinesUpTo(files, f - 1) \o ObjectLines(files, f)

\* The <<file, line>> of every request submitted, in the order of submission.
RECURSIVE SubmittedLines(_)
SubmittedLines(calls) ==
    IF Len(calls) = 0 THEN <<>>
    ELSE SubmittedLines(SubSeq(calls, 1, Len(calls) - 1))
            \o [i \in 1..Len(calls[Len(calls)].items) |->
                    calls[Len(calls)].items[i].src]

\* The requests of the batch that no call has submitted.
Unsubmitted(st) ==
    {i \in 1..Len(st.batch) :
        \A c \in 1..Len(st.calls) :
            \A j \in 1..Len(st.calls[c].items) :
                st.calls[c].items[j].src # st.batch[i].src}

\* The number of lines among the first n of file f that satisfy P.
CountLines(files, f, n, P(_)) == Cardinality({i \in 1..n : P(files[f][i])})

\* C1 (as stated): a submission that leaves items unprocessed is followed by a
\* re-submission of exactly those items (a re-submission itself may be the last,
\* when the retry budget is spent).
C1_UnprocessedResubmitted ==
    imp.pc = "returned" =>
        \A i \in 1..Len(imp.calls) :
            LET isRetry == i > 1 /\ imp.calls[i].items = imp.calls[i - 1].answer.unprocessed
            IN  (Len(imp.calls[i].answer.unprocessed) > 0 /\ ~isRetry)
                    => /\ i < Len(imp.calls)
                       /\ imp.calls[i + 1].items = imp.calls[i].answer.unprocessed

\* C2: when process_file returns, every line that parsed to a JSON object has
\* been submitted in exactly one batch, in file order, and nothing is pending.
C2_NoRecordLostOrDuplicated ==
    imp.pc = "returned" =>
        /\ SubmittedLines(imp.calls) = ObjectLinesUpTo(imp.files, imp.file)
        /\ Unsubmitted(imp) = {}

C2_Witness ==
    /\ imp.pc = "returned"
    /\ imp.batch_size = 2
    /\ Len(ObjectLines(imp.files, 1)) = 3
    /\ Len(imp.calls) = 2
    /\ Len(imp.calls[2].items) = 1

\* C3: a batch size outside 1..25 exits with code 1 before a file is read or the
\* store is called; a size in 1..25 is never rejected; every batch submitted has
\* between 1 and batch_size items.
C3_BatchSizeBound ==
    /\ ~(1 <= imp.batch_size /\ imp.batch_size <= 25) =>
            /\ imp.pc \in {"main", "exit"}
            /\ imp.pc = "exit" => imp.exit_code = 1
            /\ imp.file = 0 /\ Len(imp.calls) = 0
    /\ (1 <= imp.batch_size /\ imp.batch_size <= 25) =>
            imp.pc # "exit" /\ imp.exit_code = 0
    /\ \A c \in 1..Len(imp.calls) :
            /\ 1 <= Len(imp.calls[c].items)
            /\ Len(imp.calls[c].items) <= imp.batch_size
            /\ Len(imp.calls[c].items) <= 25

C3_Witness ==
    /\ imp.pc = "done"
    /\ imp.batch_size = 25
    /\ Len(imp.calls) = 2
    /\ Len(imp.calls[1].items) = 25
    /\ Len(imp.calls[2].items) = 1

\* C6, step part: the iteration that reads a malformed line adds exactly 1 to
\* error_count, submits nothing, leaves the batch and item_count alone, and the
\* loop goes on.
C6_MalformedLineStep ==
    (/\ imp.pc = "lines"
     /\ imp.line_number < Len(CurrentFile(imp))
     /\ CurrentFile(imp)[imp.line_number + 1].text = "malformed")
        => /\ imp'.error_count = imp.error_count + 1
           /\ imp'.item_count = imp.item_count
           /\ imp'.calls = imp.calls
           /\ imp'.batch = imp.batch
           /\ imp'.pc = "lines"
           /\ imp'.line_number = imp.line_number + 1

\* C6, state part: on return every line was read, no malformed line was
\* submitted, item_count is the number of lines that parsed; the ten-line file
\* with lines 3 and 7 malformed and an all-accepting store gives 8 and 2.
C6_ReturnCounts ==
    imp.pc = "returned" =>
        /\ imp.line_number = Len(CurrentFile(imp))
        /\ imp.item_count =
                CountLines(imp.files, imp.file, Len(CurrentFile(imp)),
                           LAMBDA l : l.text = "json")
        /\ \A i \in 1..Len(SubmittedLines(imp.calls)) :
                LET p == SubmittedLines(imp.calls)[i]
                IN  imp.files[p[1]][p[2]].text # "malformed"
        /\ (imp.files = <<TenLinesFile>> /\ imp.faults = 0)
                => imp.item_count = 8 /\ imp.error_count = 2

\* C6: partial-failure isolation: a line that fails to parse costs one error,
\* is not submitted and does not stop the file; item_count counts the parsed lines.
C6_PartialFailureIsolation == [][C6_MalformedLineStep]_vars /\ []C6_ReturnCounts

C6_Witness ==
    /\ imp.pc = "returned"
    /\ imp.files = <<TenLinesFile>>
    /\ imp.faults = 0
    /\ imp.item_count = 8
    /\ imp.error_count = 2

\* The line a submitted request came from.
SourceLine(st, req) == st.files[req.src[1]][req.src[2]]

\* A record whose id field is absent or the empty string.
LacksId(line) ==
    "id" \notin Keys(line.value) \/ line.value.v["id"] = Str("")

\* C7 (as stated): every submitted item carries a non-empty identifier; a record
\* whose id is absent or empty gets a fresh one, distinct from every other; a
\* record with a non-empty id keeps it.
C7_IdentifierBackfill ==
    LET reqs == UNION {{imp.calls[c].items[j] : j \in 1..Len(imp.calls[c].items)} :
                            c \in 1..Len(imp.calls)}
    IN  /\ \A r \in reqs :
            /\ "id" \in DOMAIN r.Item
            /\ r.Item["id"] # Dict1("S", Str(""))
        /\ \A r \in reqs :
            ~LacksId(SourceLine(imp, r))
                => r.Item["id"] = convert_value(SourceLine(imp, r).value.v["id"])
        /\ \A r1, r2 \in reqs :
            (LacksId(SourceLine(imp, r1)) /\ LacksId(SourceLine(imp, r2)) /\ r1.src # r2.src)
                => r1.Item["id"] # r2.Item["id"]

\* The sum of the k-th count over the per-file reports.
RECURSIVE SumReports(_, _)
SumReports(reports, k) ==
    IF Len(reports) = 0 THEN 0
    ELSE SumReports(SubSeq(reports, 1, Len(reports) - 1), k) + reports[Len(reports)][k]

IsJSONLine(line) == line.text = "json"

\* C16: every file found is processed exactly once, in order, whatever errors
\* earlier files had: process_file has returned once for each file up to the
\* current one, at the end once for every file, each report counting the
\* lines of its own file; the totals at the end are the sums of the per-file
\* item and error counts; and after the batch size was accepted the run never
\* ends early.
C16_FileIndependence ==
    /\ imp.pc \in {"open", "lines"} => Len(imp.reports) = imp.file - 1
    /\ imp.pc = "returned" => Len(imp.reports) = imp.file
    /\ imp.pc = "exit" => (~ValidBatchSize(imp.batch_size) /\ Len(imp.reports) = 0)
    /\ imp.pc = "done" =>
            /\ Len(imp.reports) = Len(imp.files)
            /\ \A f \in 1..Len(imp.files) :
                    imp.reports[f][1] =
                        CountLines(imp.files, f, Len(imp.files[f]), IsJSONLine)
            /\ imp.total_items = SumReports(imp.reports, 1)
            /\ imp.total_errors = SumReports(imp.reports, 3)

C16_Witness ==
    /\ imp.pc = "done" /\ Len(imp.files) = 2
    /\ imp.reports[1][3] > 0
    /\ imp.reports[2][1] > 0
    /\ imp.total_errors = imp.reports[1][3] + imp.reports[2][3]

\* C17: every batch submission returns to process_file.  When the store
\* answered, one batch is counted and the unprocessed items are the errors;
\* when the call raised, no batch is counted and every item of the batch is an
\* error.  The run goes on: inside the loop with an empty batch, after the loop
\* to the return of process_file.
C17_WriteBatchNeverFails ==
    [][Len(imp'.calls) = Len(imp.calls) + 1 =>
        LET call == imp'.calls[Len(imp'.calls)]
            before == imp.error_count
        IN  /\ imp'.pc \in {"lines", "returned"}
            /\ imp'.exit_code = imp.exit_code
            /\ imp'.pc = "lines" => imp'.batch = <<>>
            /\ call.answer.kind = "ok" =>
                    /\ imp'.batch_count = imp.batch_count + 1
                    /\ imp'.error_count = before + Len(call.answer.unprocessed)
            /\ call.answer.kind # "ok" =>
                    /\ imp'.batch_count = imp.batch_count
                    /\ imp'.error_count = before + Len(call.items)]_vars

C17_Witness ==
    /\ imp.pc = "lines" /\ imp.batch = <<>>
    /\ Len(imp.calls) = 1
    /\ imp.calls[1].answer.kind = "Exception"
    /\ Len(imp.calls[1].items) = 2
    /\ imp.batch_count = 0 /\ imp.error_count = 2

\* The items of file f the store accepted: for each call that returned, the
\* items of the batch that were not left unprocessed.
RECURSIVE AcceptedItems(_, _)
AcceptedItems(calls, f) ==
    IF Len(calls) = 0 THEN 0
    ELSE LET call == calls[Len(calls)]
         IN  AcceptedItems(SubSeq(calls, 1, Len(calls) - 1), f)
                + IF call.items[1].src[1] = f /\ call.answer.kind = "ok"
                  THEN Len(call.items) - Len(call.answer.unprocessed)
                  ELSE 0

IsNonBlank(line) == line.text # "blank"

\* C19: when process_file returns, the non-blank lines of the file are as many
\* as the items the store accepted plus error_count.
C19_AccountingConservation ==
    imp.pc = "returned" =>
        CountLines(imp.files, imp.file, Len(CurrentFile(imp)), IsNonBlank)
            = AcceptedItems(imp.calls, imp.file) + imp.error_count

C19_Witness ==
    /\ imp.pc = "returned"
    /\ CurrentFile(imp) = TenLinesFile
    /\ imp.error_count = 3
    /\ AcceptedItems(imp.calls, imp.file) = 7
    /\ \E c \in 1..Len(imp.calls) : Len(imp.calls[c].answer.unprocessed) = 1

(***************************************************************************)
(* Properties of the copier.                                               *)
(***************************************************************************)
\* C4 (as stated): a --batch-size outside 1..25 ends the run with a fatal error
\* before the destination is checked, created or written to.
C4_CopyBatchSizeRejected ==
    ~(1 <= cpy.batch_size /\ cpy.batch_size <= 25) =>
        /\ ~cpy.dest_checked
        /\ ~cpy.created
        /\ Len(cpy.calls) = 0
        /\ cpy.pc \in {"main", "exit"}

\* The items of the source table as a set.
SourceSet(st) == {st.source[i] : i \in 1..Len(st.source)}

\* C5 (as stated): with a store that accepts every write, copy_table_data leaves
\* exactly the source's items in the destination and issues ceil(n/b)
\* submissions of at most b items each, b being the configured batch size.
C5_CopyHonoursBatchSize ==
    (/\ cpy.pc = "copied"
     /\ cpy.faults = 0
     /\ 1 <= cpy.batch_size /\ cpy.batch_size <= 25)
        => /\ cpy.dest = SourceSet(cpy)
           /\ Len(cpy.calls) =
                (Len(cpy.source) + cpy.batch_size - 1) \div cpy.batch_size
           /\ \A c \in 1..Len(cpy.calls) :
                Len(cpy.calls[c].items) <= cpy.batch_size

\* C10: no write reaches the destination before the destination check is done
\* and, when the table was absent then, before the schema was fetched, the table
\* created and the wait for it succeeded; a create-wait that fails ends the run
\* with exit code 1 and no write issued.
C10_CopyOrdering ==
    /\ Len(cpy.calls) > 0 =>
            /\ cpy.dest_checked
            /\ cpy.absent => (cpy.schema_fetched /\ cpy.created /\ cpy.wait_ok)
    /\ (cpy.created /\ ~cpy.wait_ok) =>
            /\ cpy.pc = "exit"
            /\ cpy.exit_code = 1
            /\ Len(cpy.calls) = 0

C10_Witness ==
    /\ Len(cpy.calls) > 0
    /\ cpy.delete_requested
    /\ cpy.absent
    /\ cpy.schema_fetched /\ cpy.created /\ cpy.wait_ok

\* The failures of the setup phase: schema fetch, table creation, and the
\* waits for deletion and creation.
SetupFailures == {"schema_fetch", "create", "create_wait", "delete_wait"}

\* C11: when the schema fetch fails, the creation is rejected or a wait for
\* deletion or creation times out, the run has ended with a non-zero exit code,
\* nothing was scanned or written, Validate and DeleteSource did not run and the
\* source table is untouched.
C11_FatalSetupErrorsAbort ==
    cpy.failed \in SetupFailures =>
        /\ cpy.pc = "exit"
        /\ cpy.exit_code # 0
        /\ Len(cpy.calls) = 0
        /\ cpy.scanned = 0 /\ cpy.processed_items = 0 /\ cpy.copied_count = -1
        /\ cpy.validated = ""
        /\ cpy.confirm = ""
        /\ cpy.source_exists

C11_Witness ==
    /\ cpy.failed = "schema_fetch"
    /\ cpy.pc = "exit"
    /\ cpy.exit_code = 1
    /\ cpy.validate /\ cpy.delete_source
    /\ Len(cpy.source) > 0

\* C12: the destination is deleted only when it existed and overwrite is set,
\* and it is re-created only after the deletion was confirmed; the schema is
\* fetched and the table created only while the destination is absent; an
\* existing destination without overwrite is neither deleted nor created, no
\* schema is fetched, and the run goes on to the copy against it.
C12_DestinationHandling ==
    /\ cpy.delete_requested => (cpy.dest_initial /\ cpy.overwrite_dest)
    /\ cpy.created => (cpy.absent /\ (cpy.delete_requested => cpy.dest_checked))
    /\ cpy.schema_fetched => cpy.absent
    /\ cpy.pc \in {"get_schema", "create_table"} => ~cpy.dest_exists
    /\ (cpy.dest_initial /\ ~cpy.overwrite_dest) =>
            /\ ~cpy.delete_requested /\ ~cpy.created /\ ~cpy.schema_fetched
            /\ cpy.dest_exists
            /\ cpy.pc \notin {"get_schema", "create_table"}

C12_Witness ==
    /\ cpy.dest_initial /\ ~cpy.overwrite_dest
    /\ ~cpy.created /\ ~cpy.schema_fetched
    /\ Len(cpy.calls) > 0

\* C13: validation happens only when the validate flag is set and only after
\* the copy returned; it succeeds only on two equal counts that were read; when
\* the counts differ or could not be read it reports issues, and the run is
\* not ended by that: it goes on to the source deletion step with exit code 0.
C13_ValidationAdvisory ==
    /\ cpy.validated # "" => (cpy.validate /\ cpy.copied_count >= 0)
    /\ cpy.validated = "successful" =>
            (cpy.source_count >= 0 /\ cpy.source_count = cpy.dest_count)
    /\ (cpy.validated # "" /\ cpy.source_count # cpy.dest_count) =>
            cpy.validated = "issues"
    /\ (cpy.validated # "" /\ cpy.source_count = -1) => cpy.validated = "issues"
    /\ cpy.validated = "issues" =>
            \/ cpy.pc \in {"delete_source", "done"} /\ cpy.exit_code = 0
            \/ cpy.pc = "exit" /\ cpy.failed = "delete_source"
    /\ cpy.failed # "validate"

C13_Witness ==
    /\ cpy.validated = "issues"
    /\ cpy.source_count = MaxItems /\ cpy.dest_count = 0
    /\ cpy.pc = "done" /\ cpy.exit_code = 0

\* C14: the source table is gone only if the delete-source flag is set, the
\* copy has returned, the validation (when enabled) has given its result, and
\* the answer at the prompt was a yes; a run that ends with the flag unset or
\* with another answer leaves the source table in place.
C14_SourceDeletionGate ==
    /\ ~cpy.source_exists =>
            /\ cpy.delete_source
            /\ cpy.copied_count >= 0
            /\ cpy.validate => cpy.validated # ""
            /\ cpy.confirm = "y"
    /\ (cpy.pc \in {"done", "exit"} /\ (~cpy.delete_source \/ cpy.confirm # "y")) =>
            cpy.source_exists

C14_Witness ==
    /\ cpy.pc = "done" /\ cpy.delete_source /\ cpy.confirm = "n"
    /\ cpy.source_exists /\ cpy.copied_count = MaxItems

\* The batch writes of the copy that the store answered with an error.
FailedWrites == {i \in 1..Len(cpy.calls) : cpy.calls[i].answer.kind = "ClientError"}

\* C15: a failed write to the destination is counted as an item error and
\* does not end the run: no run ends at the failure of a write.
C15_WriteFailuresNotFatal ==
    FailedWrites # {} =>
        /\ cpy.item_errors = Cardinality(FailedWrites)
        /\ cpy.failed # "write"
        /\ cpy.pc = "exit" => cpy.failed \in {"scan", "delete_source"}

\* C20: in a run that reaches its end, the source table is gone exactly when
\* the delete-source flag is set and the answer at the prompt was a yes,
\* whatever the validation reported and however many item errors the copy
\* logged.
C20_DeletionIndependentOfOutcome ==
    cpy.pc = "done" =>
        (~cpy.source_exists <=> (cpy.delete_source /\ cpy.confirm = "y"))

C20_Witness ==
    /\ cpy.pc = "done" /\ ~cpy.source_exists
    /\ cpy.validated = "issues" /\ cpy.item_errors > 0

(***************************************************************************)
(* Properties of the encoder.                                              *)
(***************************************************************************)
\* C8: encoding is idempotent: encoding the result of an encoding returns it
\* unchanged, and an object that already carries a tag key is returned as it is.
C8_EncodeIdempotent ==
    /\ enc.pc = "reencoded" => enc.twice = enc.once
    /\ (enc.pc \in {"encoded", "reencoded"}
            /\ enc.value.t = "dict" /\ AlreadyDynamoFormat(enc.value))
        => enc.once = enc.value

C8_Witness ==
    /\ enc.pc = "reencoded"
    /\ enc.value.t = "dict"
    /\ Keys(enc.value) = {"S"}
    /\ enc.once = enc.value
    /\ enc.twice = enc.value

\* A tagged union with exactly one tag set: a dict with exactly one key, a tag,
\* and every value nested in a List or Map payload is such a dict again.
RECURSIVE IsAttributeValue(_)
IsAttributeValue(x) ==
    /\ x.t = "dict"
    /\ Cardinality(Keys(x)) = 1
    /\ Keys(x) \subseteq Tags
    /\ ("L" \in Keys(x) /\ x.v["L"].t = "list")
            => \A i \in DOMAIN x.v["L"].v : IsAttributeValue(x.v["L"].v[i])
    /\ ("M" \in Keys(x) /\ x.v["M"].t = "dict")
            => \A k \in Keys(x.v["M"]) : IsAttributeValue(x.v["M"].v[k])

\* C9: every value the encoder returns, and every value nested in its List or
\* Map payload, is a tagged union with exactly one tag set.
C9_OutputIsAttributeValue ==
    enc.pc \in {"encoded", "reencoded"} => IsAttributeValue(enc.once)

\* The decimal strings of the numbers among the bounded values.
Decimal(n) == CASE n = 0 -> "0" [] n = -12 -> "-12"

\* C18: the encoder returns a value for every input, chosen by the kind of
\* the input: S for a string, BOOL (not N) for a boolean, N with the decimal
\* string for a number, NULL for null, L with the encodings of the elements
\* in order for an array, M with the same keys and the encoded values for an
\* object without a tag key, and the object itself when it has a tag key.
C18_KindDispatch ==
    enc.pc \in {"encoded", "reencoded"} =>
        LET value == enc.value
            result == enc.once
        IN  /\ result # Unset
            /\ value.t = "str" => result = Dict1("S", value)
            /\ value.t = "bool" => (result = Dict1("BOOL", value) /\ "N" \notin Keys(result))
            /\ value.t = "num" => result = Dict1("N", Str(Decimal(value.v)))
            /\ value.t = "null" => result = Dict1("NULL", Bool(TRUE))
            /\ value.t = "list" =>
                    /\ Keys(result) = {"L"}
                    /\ result.v["L"].t = "list"
                    /\ Len(result.v["L"].v) = Len(value.v)
                    /\ \A i \in 1..Len(value.v) :
                            result.v["L"].v[i] = convert_value(value.v[i])
            /\ (value.t = "dict" /\ Keys(value) \cap Tags = {}) =>
                    /\ Keys(result) = {"M"}
                    /\ result.v["M"].t = "dict"
                    /\ Keys(result.v["M"]) = Keys(value)
                    /\ \A k \in Keys(value) :
                            result.v["M"].v[k] = convert_value(value.v[k])
            /\ (value.t = "dict" /\ Keys(value) \cap Tags # {}) => result = value

C18_Witness ==
    /\ enc.pc = "encoded"
    /\ enc.value = List(<<Bool(TRUE), Num(-12)>>)
    /\ enc.once = Dict1("L", List(<<Dict1("BOOL", Bool(TRUE)),
                                     Dict1("N", Str("-12"))>>))

====
